---- MODULE Spec2Model ----
(***************************************************************************)
(* A model of tidyBot.py: the configuration file and its backup, the       *)
(* downloads directory (top-level regular files and category subfolders),  *)
(* and a run of sorter() as the steps  load_config / directory check /     *)
(* first-run folder creation, then one step per directory entry.           *)
(*                                                                         *)
(* Scope of the model.  The only I/O failure that is injected is a failure *)
(* of shutil.move (the except clause of sorter's loop); mkdir, the backup  *)
(* copy and the write of the configuration are taken to succeed whenever   *)
(* the code gives them arguments they accept.  The configurations that are *)
(* enumerated all carry the four category keys that sorter indexes         *)
(* unconditionally, and all name the default downloads path.               *)
(***************************************************************************)
EXTENDS Integers, Sequences, FiniteSets, TLC

\* ---------------------------------------------------------------- bounds
MaxTop == 2        \* regular files at the top level in an initial state
MaxAdds == 1       \* files dropped into the directory between runs

\* ---------------------------------------------------------------- names
\* A file name is kept as pathlib sees it: stem and suffix.  The stem is a
\* base string followed by the " (k)" groups it ends with, so that the name
\* get_available_name builds, "{stem} ({counter}){suffix}", is the name a
\* user could have typed as well.
Name(b, cs, e) == [base |-> b, ctrs |-> cs, ext |-> e]

stem(p) == [base |-> p.base, ctrs |-> p.ctrs]

suffix(p) == p.ext

new_name(st, counter, suf) == [base |-> st.base, ctrs |-> Append(st.ctrs, counter), ext |-> suf]

lower(s) == CASE s = ".PDF" -> ".pdf"
              [] s = ".PNG" -> ".png"
              [] OTHER -> s

Photo == Name("photo", << >>, ".png")
Photo1 == Name("photo", <<1>>, ".png")
Photo2 == Name("photo", <<2>>, ".png")
ReportUpper == Name("report", << >>, ".PDF")
Image == Name("disk", << >>, ".dmg")
Clip == Name("clip", << >>, ".mp4")

InitNames == {Photo, Photo1, ReportUpper, Image, Clip}
AddNames == {Photo}

\* ------------------------------------------------------- configuration
DefaultCategories ==
  [c \in {"Archives", "Documents", "Graphics", "Others", "Programs"} |->
    CASE c = "Archives" -> {".zip", ".rar", ".7z", ".tar", ".gz", ".bz2", ".xz", ".iso", ".dmg", ".pkg"}
      [] c = "Documents" -> {".pdf", ".doc", ".docx", ".txt", ".rtf", ".odt", ".xls", ".xlsx",
                             ".ppt", ".pptx", ".csv", ".md", ".epub", ".mobi"}
      [] c = "Graphics" -> {".jpg", ".jpeg", ".png", ".gif", ".bmp", ".svg", ".webp", ".tiff",
                            ".psd", ".raw", ".ico", ".heic", ".mp4", ".mov", ".avi", ".mkv",
                            ".wmv", ".flv", ".webm", ".m4v", ".mp3", ".wav", ".flac", ".aac",
                            ".ogg", ".wma", ".m4a", ".aiff", ".mid", ".midi"}
      [] c = "Others" -> {}
      [] c = "Programs" -> {".exe", ".msi", ".deb", ".rpm", ".appimage", ".bat", ".sh", ".cmd",
                            ".apk", ".dmg", ".pkg"}]

\* A user-edited table: the default one with video clips given a category
\* of their own.
CustomCategories ==
  [c \in DOMAIN DefaultCategories \cup {"Videos"} |->
    CASE c = "Videos" -> {".mp4"}
      [] c = "Graphics" -> DefaultCategories["Graphics"] \ {".mp4"}
      [] OTHER -> DefaultCategories[c]]

file_categories(key) == IF key = "custom" THEN CustomCategories ELSE DefaultCategories

HomeShort == "~/Downloads"
HomeLong == "/home/user/Downloads"

expanduser(s) == IF s = HomeShort THEN HomeLong ELSE s

\* Path(...) and str(...): a path value carries its type, json can only
\* write the str.
AsPath(s) == [type |-> "Path", s |-> expanduser(s)]
AsStr(p) == [type |-> "str", s |-> p.s]

create_default_config ==
  [initialized |-> TRUE, downloads_path |-> [type |-> "str", s |-> HomeShort], cats |-> "default"]

\* The configuration file on disk.
NoFile == [kind |-> "absent", initialized |-> FALSE, path |-> "", cats |-> "", bytes |-> ""]
ValidFile(i, p, c) == [kind |-> "valid", initialized |-> i, path |-> p, cats |-> c, bytes |-> ""]
CorruptFile(b) == [kind |-> "corrupt", initialized |-> FALSE, path |-> "", cats |-> "", bytes |-> b]

\* json.dump(config, f) on a file opened with 'w': the file is truncated,
\* and the encoder raises TypeError at the first value that is not a JSON
\* type, leaving the prefix written so far.
json_dump(config) ==
  IF config.downloads_path.type = "str"
    THEN [raised |-> FALSE, file |-> ValidFile(config.initialized, config.downloads_path.s, config.cats)]
    ELSE [raised |-> TRUE, file |-> CorruptFile("partial")]

InMemory(c) == [c EXCEPT !.downloads_path = AsPath(c.downloads_path.s)]

\* load_config: the configuration returned, and the configuration file and
\* the backup file it leaves on disk.
load_config(file, backup) ==
  CASE file.kind = "absent" ->
         [config |-> InMemory(create_default_config), file |-> file, backup |-> backup]
    [] file.kind = "valid" ->
         [config |-> InMemory([initialized |-> file.initialized,
                               downloads_path |-> [type |-> "str", s |-> file.path],
                               cats |-> file.cats]),
          file |-> file, backup |-> backup]
    [] OTHER ->
         \* JSONDecodeError: copy2 to config.json.bak, then dump the default.
         \* The TypeError of the dump is caught by the outer handler, which
         \* returns the default again.
         [config |-> InMemory(create_default_config),
          file |-> json_dump(InMemory(create_default_config)).file,
          backup |-> file.bytes]

\* ------------------------------------------------------------ filesystem
VARIABLES
  cfg,        \* CONFIG_FILE
  bak,        \* config.json.bak: "" when absent, otherwise its bytes
  dirExists,  \* the downloads directory exists
  folders,    \* names of the subfolders of the downloads directory
  top,        \* regular files at the top level: [name, id]
  sub,        \* files inside subfolders: [cat, name, id]
  nextSer,    \* serial of the next file dropped into the directory
  pc,         \* "idle", "iter" (inside sorter's loop), "done"
  dry,        \* dry_run of the current or last run
  config,     \* the configuration sorter holds
  remaining,  \* entries of the listing not yet visited
  outcome,    \* "none", "nodir" (aborted at the directory check), "ok"
  announced,  \* "First run detected" was logged by this run
  moved,      \* ids moved by this run
  failed,     \* moves that raised in this run: [id, why]
  start,      \* the disk as it was when this run started
  succ,       \* this run directly follows a non-dry run, nothing added
  prevFailed  \* the moves that raised in the run before this one

vars == <<cfg, bak, dirExists, folders, top, sub, nextSer, pc, dry, config,
          remaining, outcome, announced, moved, failed, start, succ, prevFailed>>

Tree == [dirExists |-> dirExists, folders |-> folders, top |-> top, sub |-> sub]

Disk == [tree |-> Tree, cfg |-> cfg, bak |-> bak]

File(n, ser) == [name |-> n, id |-> [orig |-> n, ser |-> ser]]

\* Path.exists() of download_path / cat / name
ExistingPaths(fs, s) == {[dir |-> e.cat, name |-> e.name] : e \in {x \in s : x.cat \in fs}}

RECURSIVE probe(_, _, _)
probe(existing, destination_path, counter) ==
  LET new_path == [dir |-> destination_path.dir,
                   name |-> new_name(stem(destination_path.name), counter,
                                     suffix(destination_path.name))]
  IN IF new_path \notin existing THEN new_path
     ELSE probe(existing, destination_path, counter + 1)

\* Variant: the counter starts at 0.
get_available_name_from_zero(existing, destination_path) ==
  IF destination_path \notin existing THEN destination_path
  ELSE probe(existing, destination_path, 0)

\* Variant: the destination is used whether or not it exists.
get_available_name_unchecked(existing, destination_path) == destination_path

get_available_name(existing, destination_path) ==
  IF destination_path \notin existing THEN destination_path
  ELSE probe(existing, destination_path, 1)

\* The if/elif chain of the loop body.
Classify(file_suffix, categories) ==
  IF file_suffix \in categories["Archives"] THEN "Archives"
  ELSE IF file_suffix \in categories["Documents"] THEN "Documents"
  ELSE IF file_suffix \in categories["Graphics"] THEN "Graphics"
  ELSE IF file_suffix \in categories["Programs"] THEN "Programs"
  ELSE "Others"

\* Variant: the directory check lets a missing directory through.
path_exists_always(d) == TRUE

\* download_path.exists()
path_exists(d) == d

\* Variant: the folders are made under dry_run as well.
mkdir_folders_always(dry_run, fs, names) == fs \cup names

\* Lines 213-218: the subfolders after the loop over categories.keys();
\* mkdir(exist_ok=True) leaves a folder that is already there alone.
mkdir_folders(dry_run, fs, names) == IF dry_run THEN fs ELSE fs \cup names

\* Variant: the configuration is saved under dry_run as well.
persist_initialized_always(dry_run, file, c) ==
  json_dump([c EXCEPT !.downloads_path = AsStr(@)]).file

\* Lines 222-232: the configuration file after the first-run branch.  The
\* copy that is saved has downloads_path converted to str.
persist_initialized(dry_run, file, c) ==
  IF dry_run THEN file ELSE json_dump([c EXCEPT !.downloads_path = AsStr(@)]).file

\* Line 234-235: the entries the loop body acts on, i.e. the children of
\* the directory that are regular files (subfolders are skipped).
regular_files(t, fs) == t

\* Variant: the file is copied, the original stays.
after_move_copy(t, item) == t

\* shutil.move(item, final_destination): the top level afterwards.
after_move(t, item) == t \ {item}

\* Variant: the error ends the loop.
on_move_error_abort(rest) == {}

\* Line 264-265: the handler logs, and the loop goes on with the entries
\* that are left.
on_move_error(rest) == rest

InitFolders == {{}, {"Graphics"}, DOMAIN DefaultCategories}

InitConfigs ==
  {NoFile, CorruptFile("garbled")}
    \cup {ValidFile(i, HomeShort, c) : i \in BOOLEAN, c \in {"default", "custom"}}

Init ==
  /\ cfg \in InitConfigs
  /\ bak = ""
  /\ dirExists \in BOOLEAN
  /\ folders \in IF dirExists THEN InitFolders ELSE {{}}
  /\ top \in IF dirExists
               THEN {{File(n, 1) : n \in S} : S \in {T \in SUBSET InitNames : Cardinality(T) <= MaxTop}}
               ELSE {{}}
  /\ sub \in IF "Graphics" \in folders
               THEN SUBSET {[cat |-> "Graphics", name |-> Photo, id |-> [orig |-> Photo, ser |-> 0]]}
               ELSE {{}}
  /\ nextSer = 2
  /\ pc = "idle"
  /\ dry = FALSE
  /\ config = InMemory(create_default_config)
  /\ remaining = {}
  /\ outcome = "none"
  /\ announced = FALSE
  /\ moved = {}
  /\ failed = {}
  /\ start = Disk
  /\ succ = FALSE
  /\ prevFailed = {}

\* sorter(dry_run) up to the start of its loop: lines 198-234.
Begin(dry_run) ==
  /\ pc \in {"idle", "done"}
  /\ LET L == load_config(cfg, bak)
         c == L.config
         first == ~c.initialized
     IN /\ bak' = L.backup
        /\ IF ~path_exists(dirExists)
             THEN /\ cfg' = L.file
                  /\ config' = c
                  /\ folders' = folders
                  /\ announced' = FALSE
                  /\ remaining' = {}
                  /\ outcome' = "nodir"
                  /\ pc' = "done"
             ELSE /\ folders' = IF first
                                  THEN mkdir_folders(dry_run, folders, DOMAIN file_categories(c.cats))
                                  ELSE folders
                  /\ config' = [c EXCEPT !.initialized = TRUE]
                  /\ cfg' = IF first THEN persist_initialized(dry_run, L.file, config') ELSE L.file
                  /\ announced' = first
                  /\ remaining' = regular_files(top, folders')
                  /\ outcome' = "ok"
                  /\ pc' = "iter"
  /\ dry' = dry_run
  /\ start' = Disk
  /\ succ' = (pc = "done" /\ ~dry)
  /\ prevFailed' = failed
  /\ moved' = {}
  /\ failed' = {}
  /\ UNCHANGED <<dirExists, top, sub, nextSer>>

Run == \E dry_run \in BOOLEAN : Begin(dry_run)

Destination(item) ==
  LET file_suffix == lower(suffix(item.name))
      target_dir == Classify(file_suffix, file_categories(config.cats))
      original_destination == [dir |-> target_dir, name |-> item.name]
  IN get_available_name(ExistingPaths(folders, sub), original_destination)

\* One iteration of the loop, lines 235-265, under dry_run.
DryStep ==
  /\ pc = "iter"
  /\ dry
  /\ \E item \in remaining :
       /\ remaining' = remaining \ {item}
  /\ UNCHANGED <<cfg, bak, dirExists, folders, top, sub, nextSer, pc, dry, config,
                 outcome, announced, moved, failed, start, succ, prevFailed>>

\* One iteration of the loop with the move carried out.  shutil.move
\* raises when the folder it is to move into is missing, and may raise for
\* reasons outside the program (err).
MoveStep ==
  /\ pc = "iter"
  /\ ~dry
  /\ \E item \in remaining, err \in BOOLEAN :
       LET final_destination == Destination(item)
       IN IF final_destination.dir \in folders /\ ~err
            THEN /\ top' = after_move(top, item)
                 /\ sub' = sub \cup {[cat |-> final_destination.dir,
                                      name |-> final_destination.name, id |-> item.id]}
                 /\ moved' = moved \cup {item.id}
                 /\ remaining' = remaining \ {item}
                 /\ failed' = failed
            ELSE /\ failed' = failed \cup {[id |-> item.id,
                                              why |-> IF final_destination.dir \in folders
                                                        THEN "oserror" ELSE "nofolder"]}
                 /\ remaining' = on_move_error(remaining \ {item})
                 /\ UNCHANGED <<top, sub, moved>>
  /\ UNCHANGED <<cfg, bak, dirExists, folders, nextSer, pc, dry, config,
                 outcome, announced, start, succ, prevFailed>>

\* The loop is exhausted and sorter returns.
Finish ==
  /\ pc = "iter"
  /\ remaining = {}
  /\ pc' = "done"
  /\ UNCHANGED <<cfg, bak, dirExists, folders, top, sub, nextSer, dry, config,
                 remaining, outcome, announced, moved, failed, start, succ, prevFailed>>

\* Between two runs a new download lands in the directory.
AddFile ==
  /\ pc \in {"idle", "done"}
  /\ dirExists
  /\ nextSer <= MaxAdds + 1
  /\ \E n \in AddNames :
       /\ \A f \in top : f.name # n
       /\ top' = top \cup {File(n, nextSer)}
  /\ nextSer' = nextSer + 1
  /\ pc' = "idle"
  /\ UNCHANGED <<cfg, bak, dirExists, folders, sub, dry, config, remaining,
                 outcome, announced, moved, failed, start, succ, prevFailed>>

Next == Run \/ DryStep \/ MoveStep \/ Finish \/ AddFile

Spec == Init /\ [][Next]_vars

\* ------------------------------------------------------------ properties
Ids(S) == {e.id : e \in S}

InRun == pc \in {"iter", "done"}

Returned == pc = "done"

ExternalErrors(F) == {x \in F : x.why = "oserror"}

\* The configuration maps extension E to category C: C lists E, and no
\* other category does (the data model leaves overlaps unspecified).
MapsTo(categories, E, C) ==
  /\ C \in DOMAIN categories
  /\ E \in categories[C]
  /\ \A D \in DOMAIN categories \ {C} : E \notin categories[D]

\* C1: a regular file x.E at the top level when a non-dry run starts, with E
\* mapped by the configuration to category C, is in the subfolder C when
\* the run ends (stated for the runs in which no move was hit by an error
\* from outside the program); after a dry run it is still at the top level.
C1_MovedToItsCategory ==
  (Returned /\ outcome = "ok" /\ ExternalErrors(failed) = {}) =>
    \A f \in start.tree.top :
      \A C \in DOMAIN file_categories(config.cats) :
        MapsTo(file_categories(config.cats), suffix(f.name), C) =>
          IF dry THEN f \in top
          ELSE \E e \in sub : e.cat = C /\ e.id = f.id

\* C2: a dry run leaves the directory tree as it found it: no folder is
\* created, no file is moved, renamed or deleted.
C2_DryRunLeavesTree == (InRun /\ dry) => Tree = start.tree

C2_Witness ==
  /\ Returned /\ dry /\ outcome = "ok" /\ announced
  /\ top # {}
  /\ ~(DOMAIN file_categories(config.cats) \subseteq folders)

\* C3: a non-dry run that finds no configuration file and an existing
\* directory ends with a folder for exactly each category of the default
\* configuration, and with a configuration file on disk whose initialized
\* flag is true.
C3_FirstRunInitializes ==
  (Returned /\ ~dry /\ start.cfg.kind = "absent" /\ start.tree.dirExists) =>
    /\ folders = start.tree.folders \cup DOMAIN DefaultCategories
    /\ cfg.kind = "valid"
    /\ cfg.initialized

\* C4: after load_config has met a configuration file that does not parse,
\* the backup holds the bytes of that file, the configuration file is a
\* valid default configuration, the run uses the default, and loading
\* again changes neither file.
C4_RepairIsDurable ==
  (InRun /\ start.cfg.kind = "corrupt") =>
    /\ bak = start.cfg.bytes
    /\ cfg.kind = "valid"
    /\ cfg.cats = "default"
    /\ config.cats = "default"
    /\ load_config(cfg, bak).file = cfg
    /\ load_config(cfg, bak).backup = bak

\* The k-th candidate of get_available_name for path p.
Candidate(p, k) == [dir |-> p.dir, name |-> new_name(stem(p.name), k, suffix(p.name))]

AllNames == InitNames \cup AddNames \cup {e.name : e \in sub}

\* What get_available_name is to return for p among the paths in E.
ResolvesTo(E, p, r) ==
  /\ r \notin E
  /\ p \notin E => r = p
  /\ p \in E => \E k \in 1..(Cardinality(E) + 1) :
                  /\ r = Candidate(p, k)
                  /\ \A j \in 1..(k - 1) : Candidate(p, j) \in E

\* A step that moved the top-level file f put it where get_available_name
\* is to send it; a photo.png in particular, with photo.png in Graphics,
\* became photo (1).png, and photo (2).png when that was taken as well.
MovedAsResolved ==
  \A f \in top \ top' :
    \E e \in sub' \ sub :
      /\ e.id = f.id
      /\ ResolvesTo(ExistingPaths(folders, sub), [dir |-> e.cat, name |-> f.name],
                    [dir |-> e.cat, name |-> e.name])
      /\ f.name = Photo =>
           LET held(n) == [dir |-> "Graphics", name |-> n] \in ExistingPaths(folders, sub)
           IN /\ e.cat = "Graphics"
              /\ (held(Photo) /\ ~held(Photo1)) => e.name = Photo1
              /\ (held(Photo) /\ held(Photo1) /\ ~held(Photo2)) => e.name = Photo2

\* C5: get_available_name(p) is p when p does not exist, and otherwise
\* "{stem} (k){suffix}" in the same folder for the smallest k >= 1 that does
\* not exist; what it returns never exists; photo.png moved into a folder
\* holding photo.png becomes photo (1).png, and the next one photo (2).png.
C5_AvailableName ==
  /\ [](\A c \in folders : \A n \in AllNames :
          ResolvesTo(ExistingPaths(folders, sub), [dir |-> c, name |-> n],
                     get_available_name(ExistingPaths(folders, sub), [dir |-> c, name |-> n])))
  /\ [][MovedAsResolved]_vars

C5_Witness ==
  /\ \E e \in sub : e.cat = "Graphics" /\ e.name = Photo
  /\ \E e \in sub : e.cat = "Graphics" /\ e.name = Photo1 /\ e.id.orig = Photo /\ e.id.ser >= 1
  /\ \E e \in sub : e.cat = "Graphics" /\ e.name = Photo2 /\ e.id.orig = Photo /\ e.id \in moved

\* C6: a move that raises does not end the pass of a non-dry run: when
\* sorter returns, every regular file that was at the top level has had
\* its move attempted, and each one whose move did not raise is in the
\* folder of its category; the ones whose move raised are where they were.
C6_FailureDoesNotEndPass ==
  (Returned /\ ~dry /\ outcome = "ok") =>
    /\ Ids(start.tree.top) = moved \cup Ids(failed)
    /\ \A f \in start.tree.top :
         IF f.id \in Ids(failed)
           THEN f \in top
           ELSE \E e \in sub :
                  /\ e.id = f.id
                  /\ e.cat = Classify(lower(suffix(f.name)), file_categories(config.cats))

C6_Witness ==
  /\ Returned /\ ~dry
  /\ ExternalErrors(failed) # {}
  /\ moved # {}

\* C7 as claimed: a non-dry run that directly follows a non-dry run, with
\* no file added in between, moves nothing.
C7_SecondRunMovesNothing ==
  (Returned /\ ~dry /\ succ) => (moved = {} /\ Tree = start.tree)

\* C7 as amended: such a second run moves no file other than the ones whose
\* move raised in the first run for a reason outside the program; when the
\* first run had no such error it moves nothing at all.
C7_SecondRunMovesOnlyFailed ==
  (Returned /\ ~dry /\ succ) =>
    /\ moved \subseteq Ids(ExternalErrors(prevFailed))
    /\ ExternalErrors(prevFailed) = {} => (moved = {} /\ Tree = start.tree)

C7_Witness ==
  /\ Returned /\ ~dry /\ succ /\ outcome = "ok"
  /\ prevFailed = {}
  /\ moved = {}
  /\ \E e \in sub : e.id.ser >= 1

FlagFalseAtStart == start.cfg.kind = "valid" /\ ~start.cfg.initialized

FlagTrue == cfg.kind = "valid" /\ cfg.initialized

\* A step that starts a run of sorter.
StartsRun == pc \in {"idle", "done"} /\ pc' \in {"iter", "done"}

DryRunKeepsFlag == (InRun /\ dry /\ FlagFalseAtStart) => cfg = start.cfg

RealRunSetsFlag ==
  (InRun /\ ~dry /\ FlagFalseAtStart /\ outcome = "ok") =>
    /\ FlagTrue
    /\ announced
    /\ DOMAIN file_categories(config.cats) \subseteq folders

FlagStaysTrue ==
  FlagTrue => /\ cfg' = cfg
              /\ folders' = folders
              /\ StartsRun => ~announced'

\* C8 as claimed, the part that fails: every dry run that starts with the
\* persisted flag false announces the folder creation again.
C8_EveryDryRunAnnounces == (Returned /\ dry /\ FlagFalseAtStart) => announced

\* C8 as amended: a dry run leaves the persisted flag false, and announces
\* the folder creation again when it finds the target directory; the first
\* non-dry run that gets to the folder creation creates the folders and
\* writes the flag true; once the persisted flag is true no step writes the
\* configuration file or creates a folder, and no run announces the folder
\* creation.
C8_FlagSetOnce ==
  /\ [](DryRunKeepsFlag
        /\ ((InRun /\ dry /\ FlagFalseAtStart /\ outcome = "ok") => announced)
        /\ RealRunSetsFlag)
  /\ [][FlagStaysTrue]_vars

C8_Witness ==
  /\ Returned /\ outcome = "ok" /\ ~announced
  /\ FlagTrue /\ cfg.path = HomeLong
  /\ start.cfg = cfg

\* C9 as claimed: a run that finds no target directory leaves the tree, the
\* configuration file and the backup as they were.
C9_AbortTouchesNothing ==
  (InRun /\ ~start.tree.dirExists) => (Returned /\ outcome = "nodir" /\ Disk = start)

\* C9 as amended: a run that finds no target directory returns without
\* creating it, creates no folder and moves no file; the configuration file
\* and the backup are as they were unless the configuration file did not
\* parse, which load_config has by then backed up and rewritten.
C9_AbortTouchesNoTree ==
  (InRun /\ ~start.tree.dirExists) =>
    /\ Returned /\ outcome = "nodir"
    /\ Tree = start.tree
    /\ moved = {}
    /\ start.cfg.kind # "corrupt" => (cfg = start.cfg /\ bak = start.bak)
    /\ start.cfg.kind = "corrupt" => bak = start.cfg.bytes

C9_Witness ==
  /\ Returned /\ outcome = "nodir" /\ ~dry
  /\ FlagFalseAtStart
  /\ ~dirExists

Paths(t, s) == {<<"", e.name>> : e \in t} \cup {<<e.cat, e.name>> : e \in s}

\* Every file is at one path, and no path holds two files.
OnePlaceEach(t, s) ==
  /\ Cardinality(Ids(t \cup s)) = Cardinality(t) + Cardinality(s)
  /\ Cardinality(Paths(t, s)) = Cardinality(t) + Cardinality(s)

NothingLost ==
  /\ Ids(top \cup sub) \subseteq Ids(top' \cup sub')
  /\ sub \subseteq sub'
  /\ \A f \in top : f \in top' \/ \E e \in sub' \ sub : e.id = f.id
  /\ \A e \in sub' \ sub :
       [dir |-> e.cat, name |-> e.name] \notin ExistingPaths(folders, sub)

\* C10: no step overwrites or loses a file: a move goes to a path that did
\* not exist, every file that was there before the step is there after it,
\* once, at its old path or at the path it was moved to, and a file inside
\* a category folder keeps its path.
C10_NoFileLost ==
  /\ [](OnePlaceEach(top, sub))
  /\ [][NothingLost]_vars

C10_Witness ==
  /\ Returned /\ ~dry
  /\ \E e \in sub : e.id \in moved /\ e.name # e.id.orig
  /\ \E e \in sub : e.id.ser = 0

TypeOK ==
  /\ pc \in {"idle", "iter", "done"}
  /\ cfg.kind \in {"absent", "valid", "corrupt"}
  /\ remaining \subseteq top
  /\ \A e \in sub : e.cat \in folders

====
